---- MODULE Spec2Model ----
(***************************************************************************)
(* A model of one reconciliation run of the transaction-reconciliation     *)
(* bot: main.py loads the two ledgers (data_loader.py), recon_engine.py    *)
(* normalizes, outer-joins and classifies them, analyzer.py enriches the   *)
(* rows, save_report writes the CSV and the JSON artifact, and the         *)
(* notifier is handed the alert.                                           *)
(*                                                                         *)
(* A DataFrame is [columns |-> set of column names, rows |-> sequence of   *)
(* functions from the column names to cells]. A cell is the text of the    *)
(* value; the missing value (pandas NaN) is the cell "NaN", and the value  *)
(* dict-style .get returns for a missing column is "None".                 *)
(***************************************************************************)
EXTENDS Naturals, Sequences, FiniteSets

\* ------------------------------------------------------------------ bounds
\* rows per ledger in the small exhaustive input family
MaxRows == 2
\* transaction keys in the long input family (six rows reach position 5)
MaxTx == 6

\* ---------------------------------------------------------------- constants
\* analyzer.py: ai_limit = 5
ai_limit == 5

NaN == "NaN"
None == "None"
Unset == "<unset>"

\* ------------------------------------------------------------ text helpers
\* str.lower() on the strings that occur in a run
Lower(s) ==
  CASE s = "True" -> "true"
    [] s = "TRUE" -> "true"
    [] s = "False" -> "false"
    [] s = "Yes" -> "yes"
    [] s = "SUCCESS" -> "success"
    [] s = "ID" -> "id"
    [] s = "Amount" -> "amount"
    [] s = "Status" -> "status"
    [] OTHER -> s

\* os.getenv(name, default) for a variable whose value is v (Unset: not set)
Getenv(v, default) == IF v = Unset THEN default ELSE v

\* astype(float) on a cell read from the CSV: numeric text to its float
ToFloat(c) ==
  CASE c = "100" -> "100.0"
    [] c = "100.00" -> "100.0"
    [] c = "95" -> "95.0"
    [] OTHER -> c

\* lexicographic order of the transaction keys used in the inputs
TxIdOrder == <<"A", "B", "T1", "T2", "T3", "T4", "T5", "T6", "T7", "T8", "T9">>

Rank(id) == CHOOSE k \in 1..Len(TxIdOrder) : TxIdOrder[k] = id

SeqsUpTo(S, n) == UNION {[1..k -> S] : k \in 0..n}

RECURSIVE Flatten(_)
Flatten(ss) == IF ss = <<>> THEN <<>> ELSE Head(ss) \o Flatten(Tail(ss))

\* ------------------------------------------------------------- data frames
EmptyFrame == [columns |-> {}, rows |-> <<>>]

\* df.rename(columns=...): f maps each column of the frame to its new name,
\* one-to-one
RenameCols(df, f) ==
  LET cols2 == {f[c] : c \in df.columns}
  IN [columns |-> cols2,
      rows |-> [k \in 1..Len(df.rows) |->
                 [c2 \in cols2 |->
                    df.rows[k][CHOOSE c \in df.columns : f[c] = c2]]]]

\* df[col] = value (a scalar), adding or overwriting the column
SetCol(df, col, value) ==
  [columns |-> df.columns \cup {col},
   rows |-> [k \in 1..Len(df.rows) |->
              [c \in df.columns \cup {col} |->
                 IF c = col THEN value ELSE df.rows[k][c]]]]

\* config.py INTERNAL_FIELD_MAPPING
INTERNAL_FIELD_MAPPING(c) ==
  CASE c = "transaction_id" -> "tx_id"
    [] c = "amount_value" -> "amount"
    [] c = "currency_code" -> "currency"
    [] c = "created_on" -> "created_at"
    [] OTHER -> c

\* data_loader.py normalize_internal_data
normalize_internal_data(df) ==
  RenameCols(df, [c \in df.columns |-> INTERNAL_FIELD_MAPPING(c)])

\* data_loader.py load_internal_data: the mock mode reads the CSV, an
\* unsupported mode string returns pd.DataFrame(). The modes that query a
\* database or a payment API are outside the model
load_internal_data(mode, csv) ==
  IF mode = "mock" THEN normalize_internal_data(csv) ELSE EmptyFrame

\* data_loader.py load_gateway_data: the mock mode returns the CSV as read
load_gateway_data(mode, csv) ==
  IF mode = "mock" THEN csv ELSE EmptyFrame

\* ---------------------------------------------------------------- normalize
RenameKey(c) == IF c \in {"reference", "id"} THEN "tx_id" ELSE c

\* the dtype read_csv gives a column with rows and no string in it is
\* float64, on which the .str accessor raises AttributeError
StrAccessorFails(df, col) ==
  /\ df.rows # <<>>
  /\ \A k \in 1..Len(df.rows) : df.rows[k][col] = NaN

\* df['amount'] = df['amount'].astype(float)
AmountAsFloat(df) ==
  [columns |-> df.columns,
   rows |-> [k \in 1..Len(df.rows) |->
              [c \in df.columns |->
                 IF c = "amount" THEN ToFloat(df.rows[k][c]) ELSE df.rows[k][c]]]]

\* df['status'] = df['status'].str.lower(): a missing value stays missing
StatusLower(df) ==
  [columns |-> df.columns,
   rows |-> [k \in 1..Len(df.rows) |->
              [c \in df.columns |->
                 IF c = "status" /\ df.rows[k][c] # NaN
                   THEN Lower(df.rows[k][c])
                   ELSE df.rows[k][c]]]]

\* recon_engine.py normalize: [err |-> "" or the exception, df |-> the frame]
normalize(df, source_name) ==
  LET d1 == RenameCols(df, [c \in df.columns |-> Lower(c)])
      d2 == RenameCols(d1, [c \in d1.columns |-> RenameKey(c)])
      d3 == SetCol(d2, "source", source_name)
      d4 == IF "amount" \in d3.columns THEN AmountAsFloat(d3) ELSE d3
      d5 == IF "status" \in d4.columns THEN StatusLower(d4) ELSE d4
  IN IF "tx_id" \notin d3.columns
       THEN [err |-> "KeyError", df |-> d3]
     ELSE IF "status" \in d4.columns /\ StrAccessorFails(d4, "status")
       THEN [err |-> "AttributeError", df |-> d4]
     ELSE [err |-> "", df |-> d5]

\* -------------------------------------------------------------------- merge
Suffix(c, side) ==
  CASE c = "amount" /\ side = "_internal" -> "amount_internal"
    [] c = "amount" /\ side = "_gateway" -> "amount_gateway"
    [] c = "status" /\ side = "_internal" -> "status_internal"
    [] c = "status" /\ side = "_gateway" -> "status_gateway"
    [] c = "currency" /\ side = "_internal" -> "currency_internal"
    [] c = "currency" /\ side = "_gateway" -> "currency_gateway"
    [] c = "source" /\ side = "_internal" -> "source_internal"
    [] c = "source" /\ side = "_gateway" -> "source_gateway"

Keys(df) == {df.rows[k]["tx_id"] : k \in 1..Len(df.rows)}

RowsOf(df, key) == SelectSeq(df.rows, LAMBDA r : r["tx_id"] = key)

RECURSIVE SortedKeys(_)
SortedKeys(S) ==
  IF S = {} THEN <<>>
  ELSE LET m == CHOOSE x \in S : \A y \in S : Rank(x) <= Rank(y)
       IN <<m>> \o SortedKeys(S \ {m})

Overlap(l, r) == (l.columns \cap r.columns) \ {"tx_id"}

MergedColumns(l, r) ==
  {"tx_id", "_merge"}
    \cup {Suffix(c, "_internal") : c \in Overlap(l, r)}
    \cup {Suffix(c, "_gateway") : c \in Overlap(l, r)}
    \cup ((l.columns \cup r.columns) \ (l.columns \cap r.columns))

\* one row of the join: lrow and rrow are the rows paired, hasL and hasR say
\* which side is there (the other side's cells are NaN)
JoinRow(l, r, key, hasL, lrow, hasR, rrow) ==
  [m \in MergedColumns(l, r) |->
     IF m = "tx_id" THEN key
     ELSE IF m = "_merge"
       THEN (IF hasL /\ hasR THEN "both"
             ELSE IF hasL THEN "left_only" ELSE "right_only")
     ELSE IF \E c \in Overlap(l, r) : m = Suffix(c, "_internal")
       THEN (IF hasL
               THEN lrow[CHOOSE c \in Overlap(l, r) : m = Suffix(c, "_internal")]
               ELSE NaN)
     ELSE IF \E c \in Overlap(l, r) : m = Suffix(c, "_gateway")
       THEN (IF hasR
               THEN rrow[CHOOSE c \in Overlap(l, r) : m = Suffix(c, "_gateway")]
               ELSE NaN)
     ELSE IF m \in l.columns THEN (IF hasL THEN lrow[m] ELSE NaN)
     ELSE (IF hasR THEN rrow[m] ELSE NaN)]

\* the joined rows of one key: every left row with every right row of the
\* key, or the rows of the one side that has it
JoinKey(l, r, key) ==
  LET ls == RowsOf(l, key)
      rs == RowsOf(r, key)
  IN IF ls # <<>> /\ rs # <<>>
       THEN Flatten([i \in 1..Len(ls) |->
                      [j \in 1..Len(rs) |->
                         JoinRow(l, r, key, TRUE, ls[i], TRUE, rs[j])]])
     ELSE IF ls # <<>>
       THEN [i \in 1..Len(ls) |-> JoinRow(l, r, key, TRUE, ls[i], FALSE, ls[i])]
     ELSE [j \in 1..Len(rs) |-> JoinRow(l, r, key, FALSE, rs[j], TRUE, rs[j])]

\* pd.merge(on='tx_id', how='outer', suffixes, indicator=True): the keys of
\* an outer join come out sorted
merge(l, r) ==
  LET ks == SortedKeys(Keys(l) \cup Keys(r))
  IN Flatten([k \in 1..Len(ks) |-> JoinKey(l, r, ks[k])])

\* ----------------------------------------------------------------- classify
\* x != y on two cells: NaN is unequal to everything, itself included
Ne(x, y) == x = NaN \/ y = NaN \/ x # y

\* row.get(col): None when the row has no such column
Get(row, col, default) == IF col \in DOMAIN row THEN row[col] ELSE default

HasCols(row, cols) == cols \subseteq DOMAIN row

\* classify with the value comparisons ahead of the test of the side
classify_value_first(row) ==
  IF ~HasCols(row, {"amount_internal", "amount_gateway"}) THEN "KeyError"
  ELSE IF Ne(row["amount_internal"], row["amount_gateway"]) THEN "amount_mismatch"
  ELSE IF ~HasCols(row, {"status_internal", "status_gateway"}) THEN "KeyError"
  ELSE IF Ne(row["status_internal"], row["status_gateway"]) THEN "status_mismatch"
  ELSE IF row["_merge"] = "left_only" THEN "missing_in_gateway"
  ELSE IF row["_merge"] = "right_only" THEN "missing_in_internal"
  ELSE IF Ne(Get(row, "currency_internal", None), Get(row, "currency_gateway", None))
    THEN "currency_mismatch"
  ELSE "matched"

\* recon_engine.py reconcile.classify; "KeyError" when row[...] names a
\* column the joined frame does not have
classify(row) ==
  IF row["_merge"] = "left_only" THEN "missing_in_gateway"
  ELSE IF row["_merge"] = "right_only" THEN "missing_in_internal"
  ELSE IF ~HasCols(row, {"amount_internal", "amount_gateway"}) THEN "KeyError"
  ELSE IF Ne(row["amount_internal"], row["amount_gateway"]) THEN "amount_mismatch"
  ELSE IF ~HasCols(row, {"status_internal", "status_gateway"}) THEN "KeyError"
  ELSE IF Ne(row["status_internal"], row["status_gateway"]) THEN "status_mismatch"
  ELSE IF Ne(Get(row, "currency_internal", None), Get(row, "currency_gateway", None))
    THEN "currency_mismatch"
  ELSE "matched"

\* merged['discrepancy_type'] = merged.apply(classify, axis=1), then
\* merged.drop(columns=['_merge'])
Classified(rows) ==
  [k \in 1..Len(rows) |->
     [c \in (DOMAIN rows[k] \ {"_merge"}) \cup {"discrepancy_type"} |->
        IF c = "discrepancy_type" THEN classify(rows[k]) ELSE rows[k][c]]]

NonMatched(rows) == SelectSeq(rows, LAMBDA r : r["discrepancy_type"] # "matched")

\* ----------------------------------------------------------------- analyzer
\* rule_based_reason with the transaction key put into the messages of the
\* missing records
rule_based_reason_names_key(row) ==
  LET mismatch == Get(row, "discrepancy_type", "")
  IN CASE mismatch = "missing_in_gateway" ->
            [text |-> "Internal record exists but not found in gateway.",
             a |-> Get(row, "tx_id", ""), b |-> ""]
       [] mismatch = "missing_in_internal" ->
            [text |-> "Transaction found in gateway but missing internally.",
             a |-> Get(row, "tx_id", ""), b |-> ""]
       [] mismatch = "status_mismatch" ->
            [text |-> "Status differs (Internal: a, Gateway: b).",
             a |-> Get(row, "status_internal", ""), b |-> Get(row, "status_gateway", "")]
       [] mismatch = "amount_mismatch" ->
            [text |-> "Amounts differ (Internal: a, Gateway: b).",
             a |-> Get(row, "amount_internal", "0"), b |-> Get(row, "amount_gateway", "0")]
       [] mismatch = "currency_mismatch" ->
            [text |-> "Currency inconsistency between systems.", a |-> "", b |-> ""]
       [] OTHER -> [text |-> "No issue detected.", a |-> "", b |-> ""]

\* analyzer.py rule_based_reason: the message and the two values the
\* f-string puts into it
rule_based_reason(row) ==
  LET mismatch == Get(row, "discrepancy_type", "")
  IN CASE mismatch = "missing_in_gateway" ->
            [text |-> "Internal record exists but not found in gateway.", a |-> "", b |-> ""]
       [] mismatch = "missing_in_internal" ->
            [text |-> "Transaction found in gateway but missing internally.", a |-> "", b |-> ""]
       [] mismatch = "status_mismatch" ->
            [text |-> "Status differs (Internal: a, Gateway: b).",
             a |-> Get(row, "status_internal", ""), b |-> Get(row, "status_gateway", "")]
       [] mismatch = "amount_mismatch" ->
            [text |-> "Amounts differ (Internal: a, Gateway: b).",
             a |-> Get(row, "amount_internal", "0"), b |-> Get(row, "amount_gateway", "0")]
       [] mismatch = "currency_mismatch" ->
            [text |-> "Currency inconsistency between systems.", a |-> "", b |-> ""]
       [] OTHER -> [text |-> "No issue detected.", a |-> "", b |-> ""]

\* analyzer.py suggested_action
suggested_action(row) ==
  LET mismatch == Get(row, "discrepancy_type", "")
  IN CASE mismatch = "missing_in_gateway" ->
            "Verify if gateway webhook/API callback was received; retry if necessary."
       [] mismatch = "missing_in_internal" ->
            "Re-fetch transaction data from gateway and reinsert into DB."
       [] mismatch = "status_mismatch" -> "Sync statuses by calling gateway verify endpoint."
       [] mismatch = "amount_mismatch" -> "Escalate to finance for manual review."
       [] mismatch = "currency_mismatch" ->
            "Check currency mapping and payment channel configuration."
       [] OTHER -> "No action required."

Consistent == "Transaction is consistent across systems."
Generated == "<text of the completion>"
Unavailable == "AI explanation unavailable (check API key or rate limit)."
UnavailableOuter == "AI explanation unavailable due to quota or timeout."
SkippedDisabled == "AI analysis skipped (USE_AI=False)."
SkippedLimit == "Skipped AI analysis (limit reached)."

\* ai_explanation without the early return for a matched record
ai_explanation_no_bypass(row, outcome) ==
  IF outcome = "ok"
    THEN [called |-> TRUE, raised |-> FALSE, text |-> Generated]
  ELSE [called |-> TRUE, raised |-> FALSE, text |-> Unavailable]

\* ai_explanation returning the text of the exception it caught
ai_explanation_error_text(row, outcome) ==
  IF row["discrepancy_type"] = "matched"
    THEN [called |-> FALSE, raised |-> FALSE, text |-> Consistent]
  ELSE IF outcome = "ok"
    THEN [called |-> TRUE, raised |-> FALSE, text |-> Generated]
  ELSE [called |-> TRUE, raised |-> FALSE, text |-> "<text of the exception>"]

\* analyzer.py ai_explanation; outcome is what client.chat.completions.create
\* does when called ("ok", or "error": it raises). called: the collaborator
\* was invoked; raised: the function let an exception out
ai_explanation(row, outcome) ==
  IF row["discrepancy_type"] = "matched"
    THEN [called |-> FALSE, raised |-> FALSE, text |-> Consistent]
  ELSE IF outcome = "ok"
    THEN [called |-> TRUE, raised |-> FALSE, text |-> Generated]
  ELSE [called |-> TRUE, raised |-> FALSE, text |-> Unavailable]

\* the cap tested with > instead of >=
AiBranch_off_by_one(useAi, i) ==
  IF ~useAi THEN "disabled"
  ELSE IF i > ai_limit THEN "limit"
  ELSE "call"

\* the branch chosen without reading the flag
AiBranch_ignores_flag(useAi, i) ==
  IF i >= ai_limit THEN "limit" ELSE "call"

\* analyzer.py enrich_with_analysis, the branch taken for the row at index i
AiBranch(useAi, i) ==
  IF ~useAi THEN "disabled"
  ELSE IF i >= ai_limit THEN "limit"
  ELSE "call"

\* analyzer.py enrich_with_analysis, one iteration of the loop over
\* df.iterrows(): [row |-> the enriched row, called |-> collaborator invoked]
enrich_row(row, i, useAi, outcome) ==
  LET branch == AiBranch(useAi, i)
      ai == ai_explanation(row, outcome)
      text == CASE branch = "disabled" -> SkippedDisabled
                [] branch = "limit" -> SkippedLimit
                [] OTHER -> IF ai.raised THEN UnavailableOuter ELSE ai.text
      added == {"probable_reason", "suggested_action", "ai_explanation"}
  IN [row |-> [c \in DOMAIN row \cup added |->
                 CASE c = "probable_reason" -> rule_based_reason(row)
                   [] c = "suggested_action" -> suggested_action(row)
                   [] c = "ai_explanation" -> text
                   [] OTHER -> row[c]],
      called |-> branch = "call" /\ ai.called]

\* ------------------------------------------------------------- report files
NoCsv == [present |-> FALSE, header |-> {}, nrows |-> 0]
NoJson == [present |-> FALSE, rows |-> <<>>]

\* df.to_csv(csv_path, index=False): nothing reads the CSV back, so the file
\* is kept as its header line and its number of data lines
to_csv(rows) ==
  [present |-> TRUE,
   header |-> IF rows = <<>> THEN {} ELSE DOMAIN rows[1],
   nrows |-> Len(rows)]

\* json.loads(df.to_json(orient="records")): a missing value becomes null
JsonCell(c, v) == IF c # "probable_reason" /\ v = NaN THEN "null" ELSE v

to_json(rows) ==
  [present |-> TRUE,
   rows |-> [k \in 1..Len(rows) |-> [c \in DOMAIN rows[k] |-> JsonCell(c, rows[k][c])]]]

\* -------------------------------------------------------------------- state
VARIABLES
  INTERNAL_MODE,       \* config.py INTERNAL_MODE
  GATEWAY_MODE,        \* config.py GATEWAY_MODE
  internal_csv,        \* data/internal_transactions.csv as read_csv reads it
  gateway_csv,         \* data/gateway_transactions.csv as read_csv reads it
  use_ai,              \* analyzer.py: USE_AI read from the environment
  USE_SLACK_recon,     \* recon_engine.py USE_SLACK
  USE_SLACK_notifier,  \* slack_notifier.py USE_SLACK
  SLACK_TOKEN,         \* slack_notifier.py SLACK_TOKEN
  SLACK_CHANNEL,       \* slack_notifier.py SLACK_CHANNEL
  pc,                  \* where the run is
  error,               \* the exception main() caught, "" when none
  df_internal,         \* main.py df_internal
  df_gateway,          \* main.py df_gateway
  result,              \* reconcile's result: the classified joined rows
  enriched_rows,       \* enrich_with_analysis's enriched_rows
  ai_calls,            \* the calls the text-generation collaborator received
  csv_file,            \* reports/reconciliation_report_<timestamp>.csv
  json_file,           \* reports/reconciliation_report_<timestamp>.json
  handoff,             \* the calls of send_slack_alert reconcile made
  slack_calls          \* the calls the Slack client received

vars == <<INTERNAL_MODE, GATEWAY_MODE, internal_csv, gateway_csv, use_ai,
          USE_SLACK_recon, USE_SLACK_notifier, SLACK_TOKEN, SLACK_CHANNEL,
          pc, error, df_internal, df_gateway, result, enriched_rows, ai_calls,
          csv_file, json_file, handoff, slack_calls>>

config == <<INTERNAL_MODE, GATEWAY_MODE, internal_csv, gateway_csv, use_ai,
            USE_SLACK_recon, USE_SLACK_notifier, SLACK_TOKEN, SLACK_CHANNEL>>

\* ------------------------------------------------------------------- inputs
IntSchemaFull == {"transaction_id", "amount_value", "status", "currency_code"}
IntSchemaNoCurrency == {"transaction_id", "amount_value", "status"}
GwSchemaFull == {"tx_id", "amount", "status", "currency"}
GwSchemaNoCurrency == {"ID", "Amount", "Status"}

IntCsvRow(cols, rec) ==
  [c \in cols |->
     CASE c = "transaction_id" -> rec.id
       [] c = "amount_value" -> rec.amount
       [] c = "status" -> rec.status
       [] c = "currency_code" -> rec.currency]

GwCsvRow(cols, rec) ==
  [c \in cols |->
     CASE c \in {"tx_id", "ID"} -> rec.id
       [] c \in {"amount", "Amount"} -> rec.amount
       [] c \in {"status", "Status"} -> rec.status
       [] c = "currency" -> rec.currency]

IntFrame(cols, recs) ==
  [columns |-> cols, rows |-> [k \in 1..Len(recs) |-> IntCsvRow(cols, recs[k])]]

GwFrame(cols, recs) ==
  [columns |-> cols, rows |-> [k \in 1..Len(recs) |-> GwCsvRow(cols, recs[k])]]

Input(im, gm, ic, gc) == [imode |-> im, gmode |-> gm, icsv |-> ic, gcsv |-> gc]

\* at most one row a side, every combination of cells
RichRecs ==
  [id : {"A", "B"},
   amount : {NaN, "95", "100", "100.00"},
   status : {NaN, "pending", "success", "SUCCESS"},
   currency : {NaN, "USD", "NGN"}]

RichInputs ==
  {Input("mock", "mock", IntFrame(ic, ir), GwFrame(gc, gr)) :
     ic \in {IntSchemaFull, IntSchemaNoCurrency},
     ir \in SeqsUpTo(RichRecs, 1),
     gc \in {GwSchemaFull, GwSchemaNoCurrency},
     gr \in SeqsUpTo(RichRecs, 1)}

\* up to MaxRows rows a side, keys that repeat, statuses that are missing
LeanRecs ==
  [id : {"A", "B"}, amount : {"100"}, status : {NaN, "success"}, currency : {"USD"}]

LeanInputs ==
  {Input("mock", "mock", IntFrame(IntSchemaNoCurrency, ir), GwFrame(GwSchemaNoCurrency, gr)) :
     ir \in SeqsUpTo(LeanRecs, MaxRows), gr \in SeqsUpTo(LeanRecs, MaxRows)}

\* two keys on both sides, amounts and statuses that agree or differ
PairRecs(id) ==
  [id : {id}, amount : {"95", "100"}, status : {"pending", "success"}, currency : {"USD"}]

PairInputs ==
  {Input("mock", "mock",
         IntFrame(IntSchemaNoCurrency, <<ia, ib>>),
         GwFrame(GwSchemaNoCurrency, <<ga, gb>>)) :
     ia \in {[id |-> "A", amount |-> "100", status |-> "success", currency |-> "USD"]},
     ib \in PairRecs("B"), ga \in PairRecs("A"), gb \in PairRecs("B")}

\* a mode string no loader supports, on either side or both
UnsupportedInputs ==
  {Input(im, gm,
         IF im = "mock" THEN IntFrame(IntSchemaNoCurrency, ir) ELSE EmptyFrame,
         IF gm = "mock" THEN GwFrame(GwSchemaNoCurrency, gr) ELSE EmptyFrame) :
     im \in {"mock", "csv"}, gm \in {"mock", "file"},
     ir \in SeqsUpTo(LeanRecs, 1), gr \in SeqsUpTo(LeanRecs, 1)}

\* n keys T1..Tn; the keys in diff show the run's kind of discrepancy, the
\* others are the same record on both sides
Kinds == {"internal_only", "gateway_only", "amount_diff", "both_nan", "status_diff"}

LongInternal(n, kind, diff) ==
  LET idx == SelectSeq([i \in 1..n |-> i],
                       LAMBDA i : ~(i \in diff /\ kind = "gateway_only"))
  IN IntFrame(IntSchemaFull,
       [k \in 1..Len(idx) |->
          [id |-> TxIdOrder[idx[k] + 2],
           amount |-> IF idx[k] \in diff /\ kind = "both_nan" THEN NaN ELSE "100",
           status |-> "success",
           currency |-> "USD"]])

LongGateway(n, kind, diff) ==
  LET idx == SelectSeq([i \in 1..n |-> i],
                       LAMBDA i : ~(i \in diff /\ kind = "internal_only"))
  IN GwFrame(GwSchemaFull,
       [k \in 1..Len(idx) |->
          [id |-> TxIdOrder[idx[k] + 2],
           amount |-> IF idx[k] \in diff /\ kind = "both_nan" THEN NaN
                      ELSE IF idx[k] \in diff /\ kind = "amount_diff" THEN "95"
                      ELSE "100",
           status |-> IF idx[k] \in diff /\ kind = "status_diff" THEN "pending"
                      ELSE "success",
           currency |-> "USD"]])

\* the runs of consecutive positions lo..hi within 1..n, and the empty one
Runs(n) == {{}} \cup {lo..hi : lo \in 1..n, hi \in 1..n}

\* the numbers of keys: none, one, and the two largest
Sizes == {0, 1, MaxTx - 1, MaxTx}

LongInputs ==
  {Input("mock", "mock", LongInternal(n, kind, diff), LongGateway(n, kind, diff)) :
     n \in Sizes, kind \in Kinds, diff \in Runs(MaxTx)}

\* values of the environment variables
AiEnv == {Unset, "True", "true", "1", "False"}
SlackEnv == {Unset, "True", "TRUE", "1", "yes", "Yes", "False"}

\* USE_SLACK, SLACK_BOT_TOKEN and SLACK_CHANNEL_ID: any flag with both
\* credentials set, and an enabling flag with one of them missing
SlackSettings ==
  {[flag |-> v, token |-> "xoxb-token", channel |-> "C0123"] : v \in SlackEnv}
    \cup {[flag |-> "True", token |-> Unset, channel |-> "C0123"],
          [flag |-> "True", token |-> "xoxb-token", channel |-> Unset]}

DefaultSettings == {[flag |-> Unset, token |-> Unset, channel |-> Unset]}

\* the state when main() starts: the modules are imported, the environment
\* read into their globals, nothing loaded
InitWith(Inputs, ai, slack) ==
  /\ \E inp \in Inputs :
       /\ INTERNAL_MODE = inp.imode
       /\ GATEWAY_MODE = inp.gmode
       /\ internal_csv = inp.icsv
       /\ gateway_csv = inp.gcsv
  /\ \E v \in ai : use_ai = (Lower(Getenv(v, "False")) = "true")
  /\ \E e \in slack :
       /\ USE_SLACK_recon = (Lower(Getenv(e.flag, "False")) \in {"true", "1", "yes"})
       /\ USE_SLACK_notifier = (Lower(Getenv(e.flag, "False")) = "true")
       /\ SLACK_TOKEN = e.token
       /\ SLACK_CHANNEL = e.channel
  /\ pc = "start"
  /\ error = ""
  /\ df_internal = EmptyFrame
  /\ df_gateway = EmptyFrame
  /\ result = <<>>
  /\ enriched_rows = <<>>
  /\ ai_calls = <<>>
  /\ csv_file = NoCsv
  /\ json_file = NoJson
  /\ handoff = <<>>
  /\ slack_calls = <<>>

Init == InitWith(LongInputs \cup UnsupportedInputs, AiEnv, SlackSettings)

\* the default configuration (no variable set), the small input families
InitJoin == InitWith(RichInputs \cup LeanInputs \cup PairInputs \cup UnsupportedInputs,
                     {Unset}, DefaultSettings)

\* ------------------------------------------------------------------ actions
\* main.py main: load_internal_data(), load_gateway_data()
LoadData ==
  /\ pc = "start"
  /\ df_internal' = load_internal_data(INTERNAL_MODE, internal_csv)
  /\ df_gateway' = load_gateway_data(GATEWAY_MODE, gateway_csv)
  /\ pc' = "loaded"
  /\ UNCHANGED <<config, error, result, enriched_rows, ai_calls, csv_file,
                 json_file, handoff, slack_calls>>

\* main.py main, except Exception: the error is logged and printed
Fail(e) ==
  /\ pc' = "failed"
  /\ error' = e
  /\ UNCHANGED result

\* recon_engine.py reconcile up to result = merged.drop(...): normalize both
\* frames, merge, classify. On a frame with no rows, apply(classify, axis=1)
\* gives an empty Series or, where pandas cannot infer that, a copy of the
\* frame, and assigning that to one column raises ValueError
Reconcile ==
  /\ pc = "loaded"
  /\ LET ni == normalize(df_internal, "internal")
         ng == normalize(df_gateway, "gateway")
         merged == merge(ni.df, ng.df)
         classified == Classified(merged)
     IN IF ni.err # "" THEN Fail(ni.err)
        ELSE IF ng.err # "" THEN Fail(ng.err)
        ELSE IF merged = <<>>
          THEN \/ Fail("ValueError")
               \/ /\ result' = <<>>
                  /\ pc' = "enrich"
                  /\ UNCHANGED error
        ELSE IF \E k \in 1..Len(classified) :
                  classified[k]["discrepancy_type"] = "KeyError"
          THEN Fail("KeyError")
        ELSE /\ result' = classified
             /\ pc' = "enrich"
             /\ UNCHANGED error
  /\ UNCHANGED <<config, df_internal, df_gateway, enriched_rows, ai_calls,
                 csv_file, json_file, handoff, slack_calls>>

\* analyzer.py enrich_with_analysis: one iteration of its loop; the outcome
\* of the collaborator's call, when one is made, is its own
EnrichRow ==
  /\ pc = "enrich"
  /\ Len(enriched_rows) < Len(result)
  /\ \E outcome \in {"ok", "error"} :
       LET i == Len(enriched_rows)
           e == enrich_row(result[i + 1], i, use_ai, outcome)
       IN /\ enriched_rows' = Append(enriched_rows, e.row)
          /\ ai_calls' = IF e.called
                           THEN Append(ai_calls, [pos |-> i, outcome |-> outcome])
                           ELSE ai_calls
  /\ UNCHANGED <<config, pc, error, df_internal, df_gateway, result, csv_file,
                 json_file, handoff, slack_calls>>

\* save_report with the JSON dumped where the CSV is written
WriteCsv_json_first ==
  /\ pc = "enrich"
  /\ Len(enriched_rows) = Len(result)
  /\ json_file' = to_json(enriched_rows)
  /\ pc' = "csv_written"
  /\ UNCHANGED <<config, error, df_internal, df_gateway, result, enriched_rows,
                 ai_calls, csv_file, handoff, slack_calls>>

\* recon_engine.py save_report: df.to_csv(csv_path), after the enrichment
WriteCsv ==
  /\ pc = "enrich"
  /\ Len(enriched_rows) = Len(result)
  /\ csv_file' = to_csv(enriched_rows)
  /\ pc' = "csv_written"
  /\ UNCHANGED <<config, error, df_internal, df_gateway, result, enriched_rows,
                 ai_calls, json_file, handoff, slack_calls>>

\* recon_engine.py save_report: json.dump(data, f)
WriteJson ==
  /\ pc = "csv_written"
  /\ json_file' = to_json(enriched_rows)
  /\ pc' = "saved"
  /\ UNCHANGED <<config, error, df_internal, df_gateway, result, enriched_rows,
                 ai_calls, csv_file, handoff, slack_calls>>

\* the default 'N/A' where a message puts a reason
NotAvailable == [text |-> "N/A", a |-> "", b |-> ""]

\* recon_engine.py reconcile: the summary text built from result, whose rows
\* carry no enrichment columns
Summary(discrepancies) ==
  [count |-> Len(discrepancies),
   lines |-> [k \in 1..Len(discrepancies) |->
                [tx_id |-> discrepancies[k]["tx_id"],
                 discrepancy_type |-> discrepancies[k]["discrepancy_type"],
                 reason |-> Get(discrepancies[k], "probable_reason", NotAvailable),
                 suggestion |-> Get(discrepancies[k], "suggested_action", "N/A"),
                 status_internal |-> Get(discrepancies[k], "status_internal", "N/A"),
                 status_gateway |-> Get(discrepancies[k], "status_gateway", "N/A")]]]

\* slack_notifier.py send_slack_alert, one block a discrepancy of the JSON
Blocks(discrepancies) ==
  [k \in 1..Len(discrepancies) |->
     [tx_id |-> Get(discrepancies[k], "tx_id", None),
      discrepancy_type |-> Get(discrepancies[k], "discrepancy_type", None),
      reason |-> Get(discrepancies[k], "probable_reason", NotAvailable),
      suggestion |-> Get(discrepancies[k], "suggested_action", "N/A"),
      internal_status |-> Get(discrepancies[k], "status_internal", "N/A"),
      gateway_status |-> Get(discrepancies[k], "status_gateway", "N/A")]]

SlackOutcomes == {"ok", "ok_no_url", "upload_error", "post_error"}

\* slack_notifier.py send_slack_alert: the calls the Slack client receives.
\* outcome: what the client does (an error is caught and logged)
send_slack_alert(summary, json, outcome) ==
  IF ~USE_SLACK_notifier THEN <<>>
  ELSE IF SLACK_TOKEN = Unset THEN <<>>
  ELSE IF SLACK_CHANNEL = Unset THEN <<>>
  ELSE IF ~json.present THEN <<>>
  ELSE LET discrepancies == NonMatched(json.rows)
           upload == [api |-> "files_upload_v2", ok |-> outcome # "upload_error",
                      count |-> 0, blocks |-> <<>>, footer |-> ""]
           post == [api |-> "chat_postMessage", ok |-> outcome # "post_error",
                    count |-> Len(discrepancies), blocks |-> Blocks(discrepancies),
                    footer |-> IF outcome = "ok_no_url" THEN "saved locally"
                               ELSE "download button"]
       IN IF discrepancies = <<>> THEN <<>>
          ELSE IF outcome = "upload_error" THEN <<upload>>
          ELSE <<upload, post>>

\* recon_engine.py reconcile after save_report: the alert decision
NotifierTrigger ==
  /\ pc = "saved"
  /\ LET discrepancies == NonMatched(result)
     IN IF discrepancies # <<>> /\ USE_SLACK_recon
          THEN \E outcome \in SlackOutcomes :
                 /\ handoff' = <<Summary(discrepancies)>>
                 /\ slack_calls' =
                      send_slack_alert(Summary(discrepancies), json_file, outcome)
          ELSE /\ handoff' = <<>>
               /\ slack_calls' = <<>>
  /\ pc' = "done"
  /\ UNCHANGED <<config, error, df_internal, df_gateway, result, enriched_rows,
                 ai_calls, csv_file, json_file>>

Next ==
  \/ LoadData
  \/ Reconcile
  \/ EnrichRow
  \/ WriteCsv
  \/ WriteJson
  \/ NotifierTrigger

Spec == Init /\ [][Next]_vars

SpecJoin == InitJoin /\ [][Next]_vars

\* ------------------------------------------------------------------- claims
\* reconcile returned a result: the run is past the join and classification
Produced == pc \in {"enrich", "csv_written", "saved", "done"}

NormInternal == normalize(df_internal, "internal").df
NormGateway == normalize(df_gateway, "gateway").df

HasDuplicateKey(df) ==
  \E i, j \in 1..Len(df.rows) : i < j /\ df.rows[i]["tx_id"] = df.rows[j]["tx_id"]

RowsWithKey(rows, id) == {k \in 1..Len(rows) : rows[k]["tx_id"] = id}

SixTypes == {"missing_in_gateway", "missing_in_internal", "amount_mismatch",
             "status_mismatch", "currency_mismatch", "matched"}

\* C1: the output of reconcile holds exactly one record for every tx_id of
\* either normalized set, so it has as many records as the union of the two
\* key sets has keys.
C1_JoinCompleteness ==
  Produced =>
    LET keys == Keys(NormInternal) \cup Keys(NormGateway)
    IN /\ \A id \in keys : Cardinality(RowsWithKey(result, id)) = 1
       /\ Len(result) = Cardinality(keys)

\* the two cells hold values and the values differ, or one cell alone is missing
Differ(x, y) == x # y
\* the two cells hold the same value
SameValue(x, y) == x = y /\ x # NaN

\* C2: every output record gets one of the six categories, the first that
\* applies in the order missing_in_gateway, missing_in_internal,
\* amount_mismatch, status_mismatch, currency_mismatch, matched; a record of
\* one side only is missing on the other side whatever its cells are.
C2_ClassificationPrecedence ==
  Produced =>
    \A k \in 1..Len(result) :
      LET r == result[k]
          t == r["discrepancy_type"]
          inInt == r["tx_id"] \in Keys(NormInternal)
          inGw == r["tx_id"] \in Keys(NormGateway)
          ai == r["amount_internal"]
          ag == r["amount_gateway"]
          si == r["status_internal"]
          sg == r["status_gateway"]
          ci == Get(r, "currency_internal", None)
          cg == Get(r, "currency_gateway", None)
      IN /\ t \in SixTypes
         /\ (inInt /\ ~inGw) => t = "missing_in_gateway"
         /\ (~inInt /\ inGw) => t = "missing_in_internal"
         /\ (inInt /\ inGw) =>
              /\ t \notin {"missing_in_gateway", "missing_in_internal"}
              /\ Differ(ai, ag) => t = "amount_mismatch"
              /\ (SameValue(ai, ag) /\ Differ(si, sg)) => t = "status_mismatch"
              /\ (SameValue(ai, ag) /\ SameValue(si, sg) /\ Differ(ci, cg))
                   => t = "currency_mismatch"
              /\ (SameValue(ai, ag) /\ SameValue(si, sg) /\ SameValue(ci, cg))
                   => t = "matched"

\* a record of both sides that disagrees on amount, status and currency at
\* once and is reported as an amount mismatch
C2_Witness ==
  /\ Produced
  /\ \E k \in 1..Len(result) :
       /\ result[k]["discrepancy_type"] = "amount_mismatch"
       /\ "currency_internal" \in DOMAIN result[k]
       /\ {result[k]["amount_internal"], result[k]["amount_gateway"],
           result[k]["status_internal"], result[k]["status_gateway"],
           result[k]["currency_internal"], result[k]["currency_gateway"]}
            \cap {NaN} = {}
       /\ result[k]["status_internal"] # result[k]["status_gateway"]
       /\ result[k]["currency_internal"] # result[k]["currency_gateway"]

\* C3: on a record of both sides a field missing on both sides compares as
\* equal: with both amounts missing the record is no amount mismatch (a
\* status mismatch if the statuses differ), and with equal amounts, equal
\* statuses and both currencies missing it is matched.
C3_AbsentOnBothSidesEqual ==
  Produced =>
    \A k \in 1..Len(result) :
      LET r == result[k]
          t == r["discrepancy_type"]
      IN (r["tx_id"] \in Keys(NormInternal) \cap Keys(NormGateway)) =>
           /\ (r["amount_internal"] = NaN /\ r["amount_gateway"] = NaN) =>
                /\ t # "amount_mismatch"
                /\ r["status_internal"] # r["status_gateway"] => t = "status_mismatch"
           /\ ( /\ SameValue(r["amount_internal"], r["amount_gateway"])
                /\ SameValue(r["status_internal"], r["status_gateway"])
                /\ Get(r, "currency_internal", NaN) = NaN
                /\ Get(r, "currency_gateway", NaN) = NaN ) => t = "matched"

\* C4: a record set in which a tx_id repeats is rejected: reconcile returns
\* no output for it, so no output has several joined rows for one tx_id.
C4_DuplicateKeyRejected ==
  Produced => ~HasDuplicateKey(NormInternal) /\ ~HasDuplicateKey(NormGateway)

Supported(mode) == mode = "mock"

\* C5: a loader given an unsupported mode returns the empty record set, and
\* reconcile on it and a non-empty other side completes without error and
\* reports every record of the other side as missing on the empty side.
C5_UnsupportedModeDegrades ==
  /\ (pc # "start" /\ ~Supported(INTERNAL_MODE)) => df_internal.rows = <<>>
  /\ (pc # "start" /\ ~Supported(GATEWAY_MODE)) => df_gateway.rows = <<>>
  /\ ( /\ pc \notin {"start", "loaded"}
       /\ ~Supported(GATEWAY_MODE)
       /\ Supported(INTERNAL_MODE)
       /\ df_internal.rows # <<>>
       /\ normalize(df_internal, "internal").err = "" ) =>
         /\ pc # "failed"
         /\ Len(result) = Len(df_internal.rows)
         /\ \A k \in 1..Len(result) :
              result[k]["discrepancy_type"] = "missing_in_gateway"
  /\ ( /\ pc \notin {"start", "loaded"}
       /\ ~Supported(INTERNAL_MODE)
       /\ Supported(GATEWAY_MODE)
       /\ df_gateway.rows # <<>>
       /\ normalize(df_gateway, "gateway").err = "" ) =>
         /\ pc # "failed"
         /\ Len(result) = Len(df_gateway.rows)
         /\ \A k \in 1..Len(result) :
              result[k]["discrepancy_type"] = "missing_in_internal"

CalledAt(i) == \E k \in 1..Len(ai_calls) : ai_calls[k].pos = i

\* C6: with AI enrichment enabled the collaborator is invoked only for the
\* records at row positions 0..4, at most once each and so at most 5 times,
\* and every record at position 5 or later gets the "limit reached"
\* placeholder.
C6_AiCapRespected ==
  use_ai =>
    /\ \A k \in 1..Len(ai_calls) : ai_calls[k].pos \in 0..4
    /\ \A j, k \in 1..Len(ai_calls) : ai_calls[j].pos = ai_calls[k].pos => j = k
    /\ Len(ai_calls) <= 5
    /\ \A k \in 1..Len(enriched_rows) :
         k - 1 >= 5 => enriched_rows[k]["ai_explanation"] = SkippedLimit

\* five calls made, and a discrepancy at position 5 enriched without one
C6_Witness ==
  /\ use_ai
  /\ Len(ai_calls) = 5
  /\ Len(enriched_rows) >= 6
  /\ enriched_rows[6]["discrepancy_type"] # "matched"
  /\ enriched_rows[6]["ai_explanation"] = SkippedLimit

\* C7 as stated: every matched record gets the "consistent" message, at
\* every row position, and no call is made for it.
C7_MatchedAlwaysConsistent ==
  \A k \in 1..Len(enriched_rows) :
    enriched_rows[k]["discrepancy_type"] = "matched" =>
      /\ ~CalledAt(k - 1)
      /\ enriched_rows[k]["ai_explanation"] = Consistent

\* C7 amended: no call is made for a matched record at any row position; it
\* gets the "consistent" message when AI enrichment is enabled and its
\* position is one of 0..4, the "AI analysis skipped" placeholder when AI
\* enrichment is disabled, and the "limit reached" placeholder otherwise.
C7_MatchedBypassesCollaborator ==
  \A k \in 1..Len(enriched_rows) :
    enriched_rows[k]["discrepancy_type"] = "matched" =>
      /\ ~CalledAt(k - 1)
      /\ enriched_rows[k]["ai_explanation"] =
           (IF ~use_ai THEN SkippedDisabled
            ELSE IF k - 1 >= 5 THEN SkippedLimit
            ELSE Consistent)

\* with AI enabled: a matched record under the cap given the "consistent"
\* message, a discrepancy sent to the collaborator, and a matched record past
\* the cap given the "limit reached" placeholder
C7_Witness ==
  /\ use_ai
  /\ Len(enriched_rows) >= 6
  /\ enriched_rows[1]["discrepancy_type"] = "matched"
  /\ enriched_rows[1]["ai_explanation"] = Consistent
  /\ ai_calls # <<>>
  /\ enriched_rows[6]["discrepancy_type"] = "matched"
  /\ enriched_rows[6]["ai_explanation"] = SkippedLimit

\* C8: with the AI flag disabled the collaborator is never invoked and every
\* record gets the "AI analysis skipped" placeholder.
C8_AiDisabled ==
  ~use_ai =>
    /\ ai_calls = <<>>
    /\ \A k \in 1..Len(enriched_rows) :
         enriched_rows[k]["ai_explanation"] = SkippedDisabled

\* a finished run with AI disabled that enriched discrepancies and matches
C8_Witness ==
  /\ ~use_ai
  /\ pc = "done"
  /\ \E k \in 1..Len(enriched_rows) : enriched_rows[k]["discrepancy_type"] # "matched"
  /\ \E k \in 1..Len(enriched_rows) : enriched_rows[k]["discrepancy_type"] = "matched"

\* C9: a failed collaborator call leaves a fixed unavailability placeholder
\* on its record; the run does not fail for it, goes on with the next step,
\* and ends with every record enriched and both artifacts written.
C9_FailureContained ==
  /\ \A k \in 1..Len(ai_calls) :
       ai_calls[k].outcome = "error" =>
         /\ ai_calls[k].pos < Len(enriched_rows)
         /\ enriched_rows[ai_calls[k].pos + 1]["ai_explanation"]
              \in {Unavailable, UnavailableOuter}
  /\ pc = "failed" => ai_calls = <<>> /\ enriched_rows = <<>>
  /\ pc \in {"enrich", "csv_written", "saved"} => ENABLED Next
  /\ pc = "done" =>
       /\ Len(enriched_rows) = Len(result)
       /\ \A k \in 1..Len(enriched_rows) : "ai_explanation" \in DOMAIN enriched_rows[k]
       /\ csv_file.present /\ csv_file.nrows = Len(result)
       /\ json_file.present /\ Len(json_file.rows) = Len(result)

\* a finished run whose first call failed and whose later call succeeded
C9_Witness ==
  /\ pc = "done"
  /\ Len(ai_calls) >= 2
  /\ ai_calls[1].outcome = "error"
  /\ ai_calls[2].outcome = "ok"
  /\ enriched_rows[ai_calls[2].pos + 1]["ai_explanation"] = Generated
  /\ csv_file.present
  /\ json_file.present

\* C10: no alert is handed over or sent when the notification flag is
\* disabled or no record is a discrepancy; two identical record sets never
\* produce an alert.
C10_NoAlert ==
  /\ (~USE_SLACK_recon \/ NonMatched(result) = <<>>) =>
       handoff = <<>> /\ slack_calls = <<>>
  /\ ~USE_SLACK_notifier => slack_calls = <<>>
  /\ df_internal = df_gateway => slack_calls = <<>>

\* what probable_reason is computed from: the discrepancy type and, for a
\* status or an amount mismatch, the two values the message quotes
ReasonKey(row) ==
  LET t == row["discrepancy_type"]
  IN CASE t = "status_mismatch" -> <<t, row["status_internal"], row["status_gateway"]>>
       [] t = "amount_mismatch" -> <<t, row["amount_internal"], row["amount_gateway"]>>
       [] OTHER -> <<t, "", "">>

\* the enricher run again, AI disabled, on the enriched row at position k
\* gives the probable_reason and the suggested_action the row has
ReEnrichedSame(k) ==
  LET again == enrich_row(enriched_rows[k], k - 1, FALSE, "ok").row
  IN /\ again["probable_reason"] = enriched_rows[k]["probable_reason"]
     /\ again["suggested_action"] = enriched_rows[k]["suggested_action"]

\* C11 as stated: two records of one discrepancy_type have the same
\* probable_reason and the same suggested_action whatever their other fields
\* are, and enriching an enriched record again, AI disabled, changes neither.
C11_ReasonFunctionOfTypeAlone ==
  /\ \A j, k \in 1..Len(enriched_rows) :
       enriched_rows[j]["discrepancy_type"] = enriched_rows[k]["discrepancy_type"] =>
         /\ enriched_rows[j]["probable_reason"] = enriched_rows[k]["probable_reason"]
         /\ enriched_rows[j]["suggested_action"] = enriched_rows[k]["suggested_action"]
  /\ \A k \in 1..Len(enriched_rows) : ReEnrichedSame(k)

\* C11 amended: suggested_action is determined by the discrepancy_type alone;
\* probable_reason is determined by the discrepancy_type together with the
\* two statuses of a status mismatch and the two amounts of an amount
\* mismatch, which its message quotes; enriching an enriched record again,
\* AI disabled, changes neither.
C11_ReasonFunctionOfTypeAndQuotedValues ==
  /\ \A j, k \in 1..Len(enriched_rows) :
       /\ enriched_rows[j]["discrepancy_type"] = enriched_rows[k]["discrepancy_type"] =>
            enriched_rows[j]["suggested_action"] = enriched_rows[k]["suggested_action"]
       /\ ReasonKey(enriched_rows[j]) = ReasonKey(enriched_rows[k]) =>
            enriched_rows[j]["probable_reason"] = enriched_rows[k]["probable_reason"]
  /\ \A k \in 1..Len(enriched_rows) : ReEnrichedSame(k)

\* two status mismatches of one run whose messages quote different statuses
\* and whose action is the same, each unchanged by a second enrichment
C11_Witness ==
  /\ Len(enriched_rows) = 2
  /\ enriched_rows[1]["discrepancy_type"] = "status_mismatch"
  /\ enriched_rows[2]["discrepancy_type"] = "status_mismatch"
  /\ enriched_rows[1]["probable_reason"] # enriched_rows[2]["probable_reason"]
  /\ enriched_rows[1]["suggested_action"] = enriched_rows[2]["suggested_action"]
  /\ ReEnrichedSame(1) /\ ReEnrichedSame(2)

\* the messages posted to the Slack channel
Posted == SelectSeq(slack_calls, LAMBDA c : c.api = "chat_postMessage")

\* C12: the payload reconcile hands to the notifier has one block for every
\* non-matched record of the run and the count of them, and each block
\* carries the probable_reason and the suggested_action the enricher gave
\* that record; the same holds of the message the notifier posts.
C12_PayloadCarriesEnrichment ==
  LET d == NonMatched(enriched_rows)
  IN /\ handoff # <<>> =>
          /\ handoff[1].count = Len(d)
          /\ Len(handoff[1].lines) = Len(d)
          /\ \A k \in 1..Len(d) :
               /\ handoff[1].lines[k].tx_id = d[k]["tx_id"]
               /\ handoff[1].lines[k].reason = d[k]["probable_reason"]
               /\ handoff[1].lines[k].suggestion = d[k]["suggested_action"]
     /\ \A m \in 1..Len(Posted) :
          /\ Posted[m].count = Len(d)
          /\ Len(Posted[m].blocks) = Len(d)
          /\ \A k \in 1..Len(d) :
               /\ Posted[m].blocks[k].tx_id = d[k]["tx_id"]
               /\ Posted[m].blocks[k].reason = d[k]["probable_reason"]
               /\ Posted[m].blocks[k].suggestion = d[k]["suggested_action"]

\* C13: in every state a run can be stopped in, an artifact exists only once
\* every record is enriched, the JSON artifact exists only if the CSV
\* artifact does, and an alert was handed over or sent only if both
\* artifacts, written from the same enriched records, exist.
C13_SideEffectOrder ==
  /\ (csv_file.present \/ json_file.present) => Len(enriched_rows) = Len(result)
  /\ json_file.present => csv_file.present
  /\ (handoff # <<>> \/ slack_calls # <<>>) =>
       /\ csv_file = to_csv(enriched_rows)
       /\ json_file = to_json(enriched_rows)
  /\ pc = "csv_written" => csv_file.present /\ ~json_file.present

\* a finished run that enriched several records, wrote both artifacts and
\* then handed the alert over and sent it
C13_Witness ==
  /\ pc = "done"
  /\ Len(enriched_rows) >= 2
  /\ csv_file.present
  /\ json_file.present
  /\ handoff # <<>>
  /\ Len(slack_calls) = 2

\* C14: whenever reconcile decides to alert, the notifier reads the flag as
\* enabled too, and with the token and the channel configured it attempts
\* the alert.
C14_FlagReadingsAgree ==
  handoff # <<>> =>
    /\ USE_SLACK_recon
    /\ USE_SLACK_notifier
    /\ (SLACK_TOKEN # Unset /\ SLACK_CHANNEL # Unset) => slack_calls # <<>>

====
